---- MODULE Spec2Model ----
(***************************************************************************)
(* A model of Events::Event<Args...> (src/EventSystem/src/Event.h): the    *)
(* ordered vector of owned function wrappers, the Bind / Unbind /          *)
(* UnbindAll operations, the destructor and the fan-out call operator.     *)
(*                                                                         *)
(* The callbacks themselves are client code.  The model fixes four of      *)
(* them: two free functions (F1 does nothing to the Event, F2 calls the    *)
(* Event again from inside the dispatch), one non-const method M1 (sets a  *)
(* field of its receiver) and one const method K1.                         *)
(***************************************************************************)
EXTENDS Integers, Sequences, FiniteSets, TLC

\* Bounds of the model.
MaxBinds == 3      \* Bind calls in one behaviour (wrapper objects ever allocated)
MaxDepth == 2      \* nested operator() activations on the call stack

GlobalFuncs  == {"F1", "F2"}      \* void(*)(Args...)
MutMethods   == {"M1"}            \* void (CallerType::*)(Args...)
ConstMethods == {"K1"}            \* void (CallerType::*)(Args&&...) const
Receivers    == {"R1", "R2"}      \* objects of CallerType, named by address
NoCaller     == "none"
ArgValues    == {"a", "b"}        \* values a client passes to operator()
MovedFrom    == "moved-from"      \* state of an object whose value was moved out

\* What Args... is for this instantiation of Event.
\*   ByValue        : a type whose move leaves the source as it was (int:
\*                    moving is copying)
\*   ByValueMovable : a class type whose move constructor empties the source
\*                    (std::string, std::vector, std::unique_ptr)
\*   ByRef          : a reference type (const T&): Args&& collapses to Args
ArgModes == {"ByValue", "ByValueMovable", "ByRef"}

\* The dynamic types of the objects in boundFunctions and the class each
\* Unbind overload names in its dynamic_cast.
GlobalT  == "GlobalFunctionWrapper<void,Args...>"
RegularT == "RegularMemberFunctionWrapper<CallerType,void,Args...>"
ConstT   == "ConstMemberFunctionWrapper<CallerType,void,Args...>"
MemberT  == "MemberFunctionWrapper<Signature,CallerType,void,Args...>"
ConstMemberT == "MemberFunctionWrapper<ConstSignature,CallerType,void,Args...>"
\* Line 206 writes MemberFunctionWrapper<CallerType, void, Args...>: the
\* template's parameters are <Signature, CallerType, ReturnType, Args...>, so
\* this names the class with Signature = CallerType and CallerType = void.
MisnamedMemberT == "MemberFunctionWrapper<CallerType,void,Args...>"
NullPtr  == << >>                 \* a pointer is << >> or <<the object>>

VARIABLES
    alive,           \* the Event object exists (constructed, not yet destroyed)
    argMode,         \* the kind of Args... of this Event
    boundFunctions,  \* std::vector<std::unique_ptr<FunctionWrapperBase>>
    nextId,          \* number of wrapper objects allocated so far
    field,           \* field[r]: the data member of receiver r
    stack,           \* activations of operator(), innermost last
    calls,           \* callbacks executed since the last top-level API call
    last,            \* the last top-level API call: its arguments and the vector before it
    heap,            \* heap[id]: how often wrapper object id has been deleted (0: it is live)
    scanned,         \* ids of the elements the last UnbindFunction examined, in scan order
    prevRun          \* ids the previous top-level call executed, when it was an Invoke too

vars == <<alive, argMode, boundFunctions, nextId, field, stack, calls, last,
          heap, scanned, prevRun>>

----------------------------------------------------------------------------
\* Wrapper objects.  id is the identity of the heap object make_unique returned.

GlobalFunctionWrapper(id, funcPtr) ==
    [id |-> id, type |-> GlobalT, funcPtr |-> funcPtr, caller |-> NoCaller]

RegularMemberFunctionWrapper(id, funcPtr, caller) ==
    [id |-> id, type |-> RegularT, funcPtr |-> funcPtr, caller |-> caller]

ConstMemberFunctionWrapper(id, funcPtr, caller) ==
    [id |-> id, type |-> ConstT, funcPtr |-> funcPtr, caller |-> caller]

\* The classes an object of dynamic type t is an instance of.
BasesOf(t) ==
    CASE t = GlobalT  -> {GlobalT, "FunctionWrapper", "FunctionWrapperBase"}
      [] t = RegularT -> {RegularT, MemberT, "FunctionWrapper", "FunctionWrapperBase"}
      [] t = ConstT   -> {ConstT, ConstMemberT, "FunctionWrapper", "FunctionWrapperBase"}

\* dynamic_cast<FuncType*>(boundFunctions[i].get())
DynamicCast(FuncType, w) == IF FuncType \in BasesOf(w.type) THEN <<w>> ELSE NullPtr

\* A comparison that takes every function for the one asked about.
IsFunctionAny(w, function) == TRUE

\* FunctionWrapper::IsFunction and GlobalFunctionWrapper::operator==
IsFunction(w, function) == w.funcPtr = function

\* A comparison of the receivers' values instead of their addresses.
IsCallerByValue(w, possibleCaller) == field[w.caller] = field[possibleCaller]

\* MemberFunctionWrapper::IsCaller: compares addresses
IsCaller(w, possibleCaller) == w.caller = possibleCaller

\* Called by both method overloads of Unbind; no class of Event.h declares it.
IsFunctionFromCaller(w, function, possibleCaller) ==
    IsFunction(w, function) /\ IsCaller(w, possibleCaller)

\* The lambdas handed to UnbindFunction.  cond names the overload's captures.
ShouldRemove(cond, func) ==
    IF cond.caller = NoCaller
    THEN IsFunction(func, cond.funcPtr)
    ELSE IsFunctionFromCaller(func, cond.funcPtr, cond.caller)

\* boundFunctions.erase(boundFunctions.begin() + i), i counted from 0
Erase(s, i) == SubSeq(s, 1, i) \o SubSeq(s, i + 2, Len(s))

\* What a scan has done to the vector and which objects it has examined.
Scan(vec, seen) == [vec |-> vec, seen |-> seen]
Seen(id, scan) == Scan(scan.vec, <<id>> \o scan.seen)

\* A backward loop that lowers the index once more after an erase.
RECURSIVE UnbindLoopSkipping(_, _, _, _)
UnbindLoopSkipping(s, i, FuncType, cond) ==
    IF i < 0 THEN Scan(s, << >>)
    ELSE LET func == DynamicCast(FuncType, s[i + 1]) IN
         Seen(s[i + 1].id,
              IF func /= NullPtr /\ ShouldRemove(cond, func[1])
              THEN UnbindLoopSkipping(Erase(s, i), i - 2, FuncType, cond)
              ELSE UnbindLoopSkipping(s, i - 1, FuncType, cond))

\* A loop whose test is func == nullptr || ShouldRemove(func).
RECURSIVE UnbindLoopOr(_, _, _, _)
UnbindLoopOr(s, i, FuncType, cond) ==
    IF i < 0 THEN Scan(s, << >>)
    ELSE LET func == DynamicCast(FuncType, s[i + 1]) IN
         Seen(s[i + 1].id,
              IF func = NullPtr \/ ShouldRemove(cond, func[1])
              THEN UnbindLoopOr(Erase(s, i), i - 1, FuncType, cond)
              ELSE UnbindLoopOr(s, i - 1, FuncType, cond))

\* The loop of UnbindFunction from index i down to 0: the vector it leaves
\* and the objects boundFunctions[i].get() has returned, in that order.
RECURSIVE UnbindLoop(_, _, _, _)
UnbindLoop(s, i, FuncType, cond) ==
    IF i < 0 THEN Scan(s, << >>)
    ELSE LET func == DynamicCast(FuncType, s[i + 1]) IN
         Seen(s[i + 1].id,
              IF func /= NullPtr /\ ShouldRemove(cond, func[1])
              THEN UnbindLoop(Erase(s, i), i - 1, FuncType, cond)
              ELSE UnbindLoop(s, i - 1, FuncType, cond))

\* A scan from the front that steps past the element following an erased one.
RECURSIVE ForwardLoop(_, _, _, _)
ForwardLoop(s, i, FuncType, cond) ==
    IF i >= Len(s) THEN s
    ELSE LET func == DynamicCast(FuncType, s[i + 1]) IN
         IF func /= NullPtr /\ ShouldRemove(cond, func[1])
         THEN ForwardLoop(Erase(s, i), i + 1, FuncType, cond)
         ELSE ForwardLoop(s, i + 1, FuncType, cond)

UnbindFunctionForward(s, FuncType, cond) == ForwardLoop(s, 0, FuncType, cond)

UnbindFunction(s, FuncType, cond) == UnbindLoop(s, Len(s) - 1, FuncType, cond).vec

\* The objects UnbindFunction examines, in the order it examines them.
UnbindScanned(s, FuncType, cond) == UnbindLoop(s, Len(s) - 1, FuncType, cond).seen

\* An insertion at the front.
EmplaceFront(s, w) == <<w>> \o s

\* An insertion that refuses a function and receiver already registered.
EmplaceBackUnique(s, w) ==
    IF \E i \in 1..Len(s) :
          s[i].type = w.type /\ s[i].funcPtr = w.funcPtr /\ s[i].caller = w.caller
    THEN s ELSE Append(s, w)

\* An insertion that overwrites the last element when there is one.
EmplaceOverLast(s, w) ==
    IF s = << >> THEN <<w>> ELSE [s EXCEPT ![Len(s)] = w]

\* boundFunctions.emplace_back(...)
EmplaceBack(s, w) == Append(s, w)

\* A clear that destroys the last element only.
ClearLast(s) == SubSeq(s, 1, Len(s) - 1)

\* boundFunctions.clear()
Clear(s) == << >>

\* The elements of s whose object is no longer in t.
Removed(s, t) ==
    SelectSeq(s, LAMBDA w : ~\E n \in 1..Len(t) : t[n].id = w.id)

\* std::make_unique: a new object on the heap.
Allocate(h) == Append(h, 0)

\* A vector of raw pointers: erasing an element deletes nothing.
Leak(h, gone) == h

\* ~unique_ptr of every element erase() or clear() removed: delete the object.
Delete(h, gone) ==
    [id \in 1..Len(h) |->
        h[id] + Cardinality({n \in 1..Len(gone) : gone[n].id = id})]

\* A wrapper that owns its receiver and destroys it with itself.
DeleteOwnedReceivers(f, gone) ==
    [r \in Receivers |->
        IF \E n \in 1..Len(gone) : gone[n].caller = r THEN -1 ELSE f[r]]

\* The receivers once the wrappers in gone are deleted: the implicit
\* destructor of MemberFunctionWrapper; caller is a reference member.
ReceiversAfterDelete(f, gone) == f

----------------------------------------------------------------------------
\* The record of a top-level call.  rt: for an Unbind that directly follows the
\* Bind of the same function and receiver, made when that pair was not
\* registered, <<the vector before that Bind>>; otherwise << >>.
\* pre is the vector before the call, prev the call made before it.
Call(op, type, funcPtr, caller, arg, pre, prev, rt) ==
    [op |-> op, type |-> type, funcPtr |-> funcPtr, caller |-> caller,
     arg |-> arg, pre |-> pre, prev |-> prev, rt |-> rt]

Registered(s, type, funcPtr, caller) ==
    \E i \in 1..Len(s) :
        s[i].type = type /\ s[i].funcPtr = funcPtr /\ s[i].caller = caller

Idle == alive /\ stack = << >>

Init ==
    /\ alive = TRUE
    /\ argMode \in ArgModes
    /\ boundFunctions = << >>
    /\ nextId = 0
    /\ field = [r \in Receivers |-> 0]
    /\ stack = << >>
    /\ calls = << >>
    /\ last = Call("Construct", NoCaller, NoCaller, NoCaller, NoCaller, << >>, NoCaller, << >>)
    /\ heap = << >>
    /\ scanned = << >>
    /\ prevRun = << >>

DoBind(w) ==
    /\ Idle
    /\ nextId < MaxBinds
    /\ nextId' = nextId + 1
    /\ boundFunctions' = EmplaceBack(boundFunctions, w)
    /\ calls' = << >>
    /\ last' = Call("Bind", w.type, w.funcPtr, w.caller, NoCaller, boundFunctions, last.op, << >>)
    /\ heap' = Allocate(heap)
    /\ scanned' = << >>
    /\ prevRun' = << >>
    /\ UNCHANGED <<alive, argMode, field, stack>>

\* Bind(void(*funcPtr)(Args...))
BindGlobal ==
    \E f \in GlobalFuncs : DoBind(GlobalFunctionWrapper(nextId + 1, f))

\* Bind(void (CallerType::*)(Args...), CallerType&) and its Args&&... twin
BindRegular ==
    \E m \in MutMethods, r \in Receivers :
        DoBind(RegularMemberFunctionWrapper(nextId + 1, m, r))

\* Bind(void (CallerType::*)(Args&&...) const, CallerType&): the wrapper's
\* constructor takes a (Args...) const method, the same type only when Args
\* are references.
BindConst ==
    /\ argMode = "ByRef"
    /\ \E m \in ConstMethods, r \in Receivers :
        DoBind(ConstMemberFunctionWrapper(nextId + 1, m, r))

DoUnbind(type, FuncType, funcPtr, caller) ==
    /\ Idle
    /\ boundFunctions' =
          UnbindFunction(boundFunctions, FuncType, [funcPtr |-> funcPtr, caller |-> caller])
    /\ scanned' =
          UnbindScanned(boundFunctions, FuncType, [funcPtr |-> funcPtr, caller |-> caller])
    /\ heap' = Delete(heap, Removed(boundFunctions, boundFunctions'))
    /\ field' = ReceiversAfterDelete(field, Removed(boundFunctions, boundFunctions'))
    /\ prevRun' = << >>
    /\ calls' = << >>
    /\ last' = Call("Unbind", type, funcPtr, caller, NoCaller, boundFunctions, last.op,
                    IF /\ last.op = "Bind" /\ last.type = type
                       /\ last.funcPtr = funcPtr /\ last.caller = caller
                       /\ ~Registered(last.pre, type, funcPtr, caller)
                    THEN <<last.pre>> ELSE << >>)
    /\ UNCHANGED <<alive, argMode, nextId, stack>>

\* The class each Unbind overload hands to UnbindFunction as FuncType.
UnbindCast(type) ==
    CASE type = GlobalT  -> GlobalT
      [] type = RegularT -> MisnamedMemberT
      [] type = ConstT   -> ConstT

\* Unbind(void(*funcPtr)(Args...))
UnbindGlobal ==
    \E f \in GlobalFuncs : DoUnbind(GlobalT, UnbindCast(GlobalT), f, NoCaller)

\* Unbind(void (CallerType::*)(Args...), CallerType&)
UnbindRegular ==
    \E m \in MutMethods, r \in Receivers : DoUnbind(RegularT, UnbindCast(RegularT), m, r)

\* Unbind(void (CallerType::*)(Args...) const, CallerType&)
UnbindConst ==
    \E m \in ConstMethods, r \in Receivers : DoUnbind(ConstT, UnbindCast(ConstT), m, r)

UnbindAll ==
    /\ Idle
    /\ boundFunctions' = Clear(boundFunctions)
    /\ calls' = << >>
    /\ last' = Call("UnbindAll", NoCaller, NoCaller, NoCaller, NoCaller, boundFunctions, last.op, << >>)
    /\ heap' = Delete(heap, Removed(boundFunctions, boundFunctions'))
    /\ field' = ReceiversAfterDelete(field, Removed(boundFunctions, boundFunctions'))
    /\ scanned' = << >>
    /\ prevRun' = << >>
    /\ UNCHANGED <<alive, argMode, nextId, stack>>

\* ~Event(): UnbindAll(), then the object is gone.
Destroy ==
    /\ Idle
    /\ alive' = FALSE
    /\ boundFunctions' = Clear(boundFunctions)
    /\ calls' = << >>
    /\ last' = Call("Destroy", NoCaller, NoCaller, NoCaller, NoCaller, boundFunctions, last.op, << >>)
    /\ heap' = Delete(heap, Removed(boundFunctions, boundFunctions'))
    /\ field' = ReceiversAfterDelete(field, Removed(boundFunctions, boundFunctions'))
    /\ scanned' = << >>
    /\ prevRun' = << >>
    /\ UNCHANGED <<argMode, nextId, stack>>

----------------------------------------------------------------------------
\* operator()(Args&&... args): the range-based for over boundFunctions, one
\* activation per call.  A frame holds the position of the loop (i), the value
\* the caller passed (passed) and the present value of the object args names.

Top == stack[Len(stack)]

\* A loop that stops one element early.
AtEndEarly(s, i) == i >= Len(s)

\* An increment that steps over an element.
AdvanceTwo(i) == i + 2

\* ++it and it != end() of the range-based for
Advance(i) == i + 1
AtEnd(s, i) == i > Len(s)

\* What the callee's parameter holds on entry: funcPtr(std::forward<Args>(args)...)
Forward(args) == args

\* The object args names once the callee has returned.  std::forward<Args>
\* hands a by-value Args on as an rvalue, so the callee's parameter is
\* move-constructed from it; what that leaves behind is the type's affair
\* (argMode).
ArgsAfterCall(mode, args) ==
    IF mode = "ByValueMovable" THEN MovedFrom ELSE args

\* Client code: F2 calls the Event again with the argument it received.
ReInvokes(w) == w.type = GlobalT /\ w.funcPtr = "F2"

\* Client code: M1 writes the field of its receiver.
FieldAfterCall(w) ==
    IF w.type = RegularT THEN [field EXCEPT ![w.caller] = 1] ELSE field

\* Activations of operator() begun since the last top-level call.
Invocations == {calls[k].inv : k \in 1..Len(calls)} \cup {stack[k].inv : k \in 1..Len(stack)}

\* A nested activation that a guard against reentrancy turns into a no-op.
FrameGuarded(inv, v) ==
    [inv |-> inv, i |-> IF stack = << >> THEN 1 ELSE Len(boundFunctions) + 1,
     passed |-> v, args |-> v]

\* A new activation: the loop starts at begin().
Frame(inv, v) == [inv |-> inv, i |-> 1, passed |-> v, args |-> v]

\* The callbacks executed by activation k of operator(), in execution order.
CallsOf(k) == SelectSeq(calls, LAMBDA c : c.inv = k)

IdsOf(s) == [n \in 1..Len(s) |-> s[n].id]
CalledIds(k) == [n \in 1..Len(CallsOf(k)) |-> CallsOf(k)[n].w.id]

\* A wrapper that calls the method on a copy of the receiver of its own,
\* which no other callback writes.
ObservedCopy(w) == IF w.caller = NoCaller THEN NoCaller ELSE 0

\* Client code: a method sees the field of the object it is called on, which
\* the wrapper reaches through its reference: (caller.*funcPtr)(...).
Observed(w) == IF w.caller = NoCaller THEN NoCaller ELSE field[w.caller]

\* A loop that takes each wrapper out of the vector once it has called it.
VectorOneShot(s, i) == Erase(s, i - 1)

\* The vector after the loop body: function is a reference to the element,
\* which is called and left where it is.
VectorAfterCall(s, i) == s

\* A client calls the Event.
InvokeBegin ==
    /\ Idle
    /\ \E v \in ArgValues :
         /\ stack' = <<Frame(1, v)>>
         /\ last' = Call("Invoke", NoCaller, NoCaller, NoCaller, v, boundFunctions, last.op, << >>)
    /\ calls' = << >>
    /\ prevRun' = IF last.op = "Invoke" THEN CalledIds(1) ELSE << >>
    /\ scanned' = << >>
    /\ UNCHANGED <<alive, argMode, boundFunctions, nextId, field, heap>>

\* One iteration of the loop: (*function)(std::forward<Args>(args)...)
CallNext ==
    /\ stack /= << >>
    /\ ~AtEnd(boundFunctions, Top.i)
    /\ LET function == boundFunctions[Top.i]
           got == Forward(Top.args)
           nested == ReInvokes(function) /\ Len(stack) < MaxDepth
       IN /\ calls' = Append(calls, [inv |-> Top.inv, idx |-> Top.i, w |-> function,
                                     passed |-> Top.passed, got |-> got,
                                     saw |-> Observed(function),
                                     depth |-> Len(stack),
                                     spawn |-> IF nested
                                               THEN Cardinality(Invocations) + 1
                                               ELSE 0])
          /\ field' = FieldAfterCall(function)
          /\ boundFunctions' = VectorAfterCall(boundFunctions, Top.i)
          /\ LET outer == [stack EXCEPT ![Len(stack)] =
                            [@ EXCEPT !.i = Advance(@),
                                      !.args = ArgsAfterCall(argMode, @)]]
             IN stack' = IF nested
                         THEN Append(outer, Frame(Cardinality(Invocations) + 1, got))
                         ELSE outer
    /\ UNCHANGED <<alive, argMode, nextId, last, heap, scanned, prevRun>>

\* The loop has reached end(): operator() returns.
InvokeReturn ==
    /\ stack /= << >>
    /\ AtEnd(boundFunctions, Top.i)
    /\ stack' = SubSeq(stack, 1, Len(stack) - 1)
    /\ UNCHANGED <<alive, argMode, boundFunctions, nextId, field, calls, last,
                   heap, scanned, prevRun>>

Next ==
    \/ BindGlobal
    \/ BindRegular
    \/ BindConst
    \/ UnbindGlobal
    \/ UnbindRegular
    \/ UnbindConst
    \/ UnbindAll
    \/ Destroy
    \/ InvokeBegin
    \/ CallNext
    \/ InvokeReturn

Spec == Init /\ [][Next]_vars

\* The thread that is inside operator() keeps running: the loop takes its next
\* iteration and, at end(), returns.  Clients need not call anything.
SpecLive == Init /\ [][Next]_vars /\ WF_vars(CallNext) /\ WF_vars(InvokeReturn)

----------------------------------------------------------------------------
\* Observations the properties are stated on.

\* The top-level operator() call has returned.
Done == last.op = "Invoke" /\ stack = << >>

SameIdentity(w, type, funcPtr, caller) ==
    w.type = type /\ w.funcPtr = funcPtr /\ w.caller = caller

Count(s, type, funcPtr, caller) ==
    Cardinality({n \in 1..Len(s) : SameIdentity(s[n], type, funcPtr, caller)})

Identities ==
    {<<GlobalT, f, NoCaller>> : f \in GlobalFuncs}
    \cup {<<RegularT, m, r>> : m \in MutMethods, r \in Receivers}
    \cup {<<ConstT, m, r>> : m \in ConstMethods, r \in Receivers}

MethodUnbind == last.op = "Unbind" /\ last.type \in {RegularT, ConstT}

----------------------------------------------------------------------------
\* C1 (order preservation): the vector always holds the surviving
\* registrations in the order they were bound (ids ascend), every activation
\* of operator() executes them from the front in that order, and when the
\* top-level call has returned it has executed exactly the vector's sequence.
C1_OrderPreserved ==
    /\ \A i, j \in 1..Len(boundFunctions) :
          i < j => boundFunctions[i].id < boundFunctions[j].id
    /\ \A k \in Invocations : \A n \in 1..Len(CallsOf(k)) :
          /\ n <= Len(boundFunctions)
          /\ CallsOf(k)[n].w = boundFunctions[n]
    /\ Done => CalledIds(1) = IdsOf(last.pre)

\* An Invoke that returned after a Bind, Bind, Bind, Unbind history left two
\* registrations that were not bound one right after the other.
C1_Witness ==
    /\ Done
    /\ Len(last.pre) >= 2
    /\ \E n \in 1..(Len(last.pre) - 1) : last.pre[n + 1].id > last.pre[n].id + 1
    /\ CalledIds(1) = IdsOf(last.pre)

\* C2 (fan-out completeness): when operator() has returned, every activation
\* of it has executed each registered wrapper, of whatever kind, exactly once,
\* and nothing that is not registered.
C2_FanOutComplete ==
    Done => \A k \in Invocations :
        /\ \A i \in 1..Len(last.pre) :
              Cardinality({n \in 1..Len(CallsOf(k)) :
                              CallsOf(k)[n].w.id = last.pre[i].id}) = 1
        /\ \A n \in 1..Len(CallsOf(k)) :
              \E i \in 1..Len(last.pre) : last.pre[i] = CallsOf(k)[n].w

\* One free function, one mutable method and one const method were registered
\* and one Invoke ran all three.
C2_Witness ==
    /\ Done
    /\ {last.pre[i].type : i \in 1..Len(last.pre)} = {GlobalT, RegularT, ConstT}
    /\ Len(calls) = Len(last.pre)
    /\ {calls[n].w.type : n \in 1..Len(calls)} = {GlobalT, RegularT, ConstT}

\* C3 (same arguments to every callback): every callback executed receives
\* the value that was passed to the operator() activation that executes it.
C3_SameArguments ==
    \A n \in 1..Len(calls) : calls[n].got = calls[n].passed

\* C4 (Unbind of a free function removes every occurrence): right after
\* Unbind(f) no free-function wrapper holding f is left, and an Invoke
\* executes no free function that is not registered.
C4_UnbindRemovesEvery ==
    /\ (last.op = "Unbind" /\ last.type = GlobalT)
          => Count(boundFunctions, GlobalT, last.funcPtr, NoCaller) = 0
    /\ last.op = "Invoke" =>
          \A n \in 1..Len(calls) :
              calls[n].w.type = GlobalT
                  => Count(last.pre, GlobalT, calls[n].w.funcPtr, NoCaller) > 0

\* f was bound twice in a row (with something else around) and one Unbind(f)
\* removed both.
C4_Witness ==
    /\ last.op = "Unbind" /\ last.type = GlobalT
    /\ \E n \in 1..(Len(last.pre) - 1) :
          /\ SameIdentity(last.pre[n], GlobalT, last.funcPtr, NoCaller)
          /\ SameIdentity(last.pre[n + 1], GlobalT, last.funcPtr, NoCaller)
    /\ Len(boundFunctions) = Len(last.pre) - 2
    /\ Count(boundFunctions, GlobalT, last.funcPtr, NoCaller) = 0

\* C5 (Unbind of a method and receiver removes every match): right after
\* Unbind(method, receiver) no wrapper of that kind holding that method and
\* that receiver is left.
C5_UnbindMethodRemoves ==
    MethodUnbind
        => Count(boundFunctions, last.type, last.funcPtr, last.caller) = 0

\* C6 (identity, not value, for receivers): Unbind(method, r1) removes no
\* registration bound to another receiver: every wrapper it removes holds r1,
\* and the registrations of every other receiver, also one whose field equals
\* r1's, are all still there, in order.
C6_IdentityNotValue ==
    MethodUnbind =>
        /\ \A n \in 1..Len(Removed(last.pre, boundFunctions)) :
              Removed(last.pre, boundFunctions)[n].caller = last.caller
        /\ \A r \in Receivers \ {last.caller} :
              SelectSeq(boundFunctions, LAMBDA w : w.caller = r)
                  = SelectSeq(last.pre, LAMBDA w : w.caller = r)

\* The same const method was bound to R1 and to R2, the two receivers hold
\* equal fields, and Unbind(method, R1) removed R1's registration only.
C6_Witness ==
    /\ MethodUnbind
    /\ \E r \in Receivers \ {last.caller} :
          /\ field[r] = field[last.caller]
          /\ Count(last.pre, last.type, last.funcPtr, r) > 0
          /\ Count(boundFunctions, last.type, last.funcPtr, r)
                = Count(last.pre, last.type, last.funcPtr, r)
    /\ Count(last.pre, last.type, last.funcPtr, last.caller) > 0
    /\ Count(boundFunctions, last.type, last.funcPtr, last.caller) = 0

\* C7 (no-op removal): an Unbind, of any overload, of a function or pair that
\* is not registered leaves the vector exactly as it was.
C7_NoOpRemoval ==
    (last.op = "Unbind"
        /\ Count(last.pre, last.type, last.funcPtr, last.caller) = 0)
        => boundFunctions = last.pre

\* An Unbind of an unregistered function of a kind of which another function
\* is registered, which left the vector as it was.
C7_Witness ==
    /\ last.op = "Unbind"
    /\ Count(last.pre, last.type, last.funcPtr, last.caller) = 0
    /\ \E n \in 1..Len(last.pre) : last.pre[n].type = last.type
    /\ boundFunctions = last.pre

\* C8 (teardown): right after UnbindAll or the destructor the vector is
\* empty, and the Invoke that follows an UnbindAll executes no callback.
C8_Teardown ==
    /\ last.op \in {"UnbindAll", "Destroy"} => boundFunctions = << >>
    /\ (last.op = "Invoke" /\ last.prev = "UnbindAll")
          => (last.pre = << >> /\ calls = << >>)

\* Wrappers had been bound, UnbindAll was called, and the Invoke after it
\* returned without executing anything.
C8_Witness ==
    /\ Done
    /\ last.prev = "UnbindAll"
    /\ nextId >= 2
    /\ calls = << >>

\* C9 (multiplicity): Bind adds one registration also when the same function
\* and receiver are registered already, and an Invoke executes each function
\* and receiver as many times as it is registered.
C9_Multiplicity ==
    /\ last.op = "Bind" =>
          /\ Len(boundFunctions) = Len(last.pre) + 1
          /\ Count(boundFunctions, last.type, last.funcPtr, last.caller)
                = Count(last.pre, last.type, last.funcPtr, last.caller) + 1
    /\ Done => \A x \in Identities :
          Cardinality({n \in 1..Len(CallsOf(1)) :
                          SameIdentity(CallsOf(1)[n].w, x[1], x[2], x[3])})
              = Count(last.pre, x[1], x[2], x[3])

\* A method was bound twice to the same receiver and one Invoke executed it
\* twice.
C9_Witness ==
    /\ Done
    /\ \E x \in Identities :
          /\ x[1] /= GlobalT
          /\ Count(last.pre, x[1], x[2], x[3]) = 2
          /\ Cardinality({n \in 1..Len(CallsOf(1)) :
                             SameIdentity(CallsOf(1)[n].w, x[1], x[2], x[3])}) = 2

\* C10 (every Bind has a mirroring Unbind): an Unbind with the arguments of
\* the Bind made right before it, on an Event where that function and
\* receiver were not registered, leaves the vector as it was before the Bind.
C10_BindUnbindRoundTrip ==
    (last.op = "Unbind" /\ last.rt /= << >>) => boundFunctions = last.rt[1]

\* C11 (Bind never fails and only appends): while no dispatch is running
\* every Bind overload can be called (const methods: when Args are
\* references, the only case in which that overload compiles), and right
\* after a Bind the vector is the vector before it with one new wrapper, of
\* the function and receiver given, appended at the end.
C11_BindAppends ==
    /\ (Idle /\ nextId < MaxBinds) =>
          /\ ENABLED BindGlobal
          /\ ENABLED BindRegular
          /\ argMode = "ByRef" => ENABLED BindConst
    /\ last.op = "Bind" =>
          /\ Len(boundFunctions) = Len(last.pre) + 1
          /\ SubSeq(boundFunctions, 1, Len(last.pre)) = last.pre
          /\ SameIdentity(boundFunctions[Len(boundFunctions)],
                          last.type, last.funcPtr, last.caller)
          /\ \A n \in 1..Len(last.pre) :
                last.pre[n].id /= boundFunctions[Len(boundFunctions)].id

\* A Bind on a vector that already held two wrappers, the function bound
\* among them, put a third one at the end.
C11_Witness ==
    /\ last.op = "Bind"
    /\ Len(last.pre) = 2
    /\ Count(last.pre, last.type, last.funcPtr, last.caller) > 0
    /\ boundFunctions = Append(last.pre, boundFunctions[Len(boundFunctions)])
    /\ Len(boundFunctions) = 3

\* C12 (UnbindAll is idempotent): an UnbindAll that directly follows an
\* UnbindAll finds the vector empty and leaves it empty, and an UnbindAll on
\* an empty vector leaves it as it was.
C12_UnbindAllIdempotent ==
    /\ (last.op = "UnbindAll" /\ last.prev = "UnbindAll")
          => (last.pre = << >> /\ boundFunctions = last.pre)
    /\ (last.op = "UnbindAll" /\ last.pre = << >>) => boundFunctions = last.pre

\* Wrappers had been bound and UnbindAll was called twice in a row.
C12_Witness ==
    /\ last.op = "UnbindAll"
    /\ last.prev = "UnbindAll"
    /\ nextId >= 2
    /\ last.pre = << >>
    /\ boundFunctions = << >>

\* C13 (Invoke runs to completion): every call of operator() returns (the
\* callbacks of the model terminate and leave the vector alone), and when the
\* top-level call has returned no activation is left and every wrapper that
\* was registered when it began has been executed.
C13_InvokeCompletes ==
    /\ (stack /= << >>) ~> Done
    /\ [](Done => /\ Len(CallsOf(1)) = Len(last.pre)
                  /\ \A i \in 1..Len(last.pre) :
                        \E n \in 1..Len(calls) :
                            calls[n].inv = 1 /\ calls[n].w = last.pre[i])

\* An Invoke on three registrations, one of which called the Event again, has
\* returned.
C13_Witness ==
    /\ Done
    /\ Len(last.pre) = 3
    /\ Len(CallsOf(1)) = 3
    /\ Cardinality(Invocations) > 1

\* C14 (the Event never mutates or frees a receiver): a step changes the
\* field of a receiver only when it is the loop of operator() calling a
\* method wrapper bound to that receiver; Bind, Unbind, UnbindAll and the
\* destructor leave every receiver as it was, and no receiver is ever deleted.
C14_ReceiversUntouched ==
    /\ [][\A r \in Receivers :
            field'[r] /= field[r] =>
                /\ stack /= << >>
                /\ Top.i <= Len(boundFunctions)
                /\ boundFunctions[Top.i].type \in {RegularT, ConstT}
                /\ boundFunctions[Top.i].caller = r
                /\ calls' = Append(calls, calls'[Len(calls')])
                /\ calls'[Len(calls')].w = boundFunctions[Top.i]]_vars
    /\ [](\A r \in Receivers : field[r] \in {0, 1})

\* A wrapper bound to a receiver whose method had run was deleted by Unbind,
\* UnbindAll or the destructor, and the receiver still holds what the method
\* wrote.
C14_Witness ==
    /\ last.op \in {"Unbind", "UnbindAll", "Destroy"}
    /\ \E n \in 1..Len(last.pre) :
          /\ last.pre[n].caller /= NoCaller
          /\ heap[last.pre[n].id] = 1
          /\ field[last.pre[n].caller] = 1

\* The test of the loop of UnbindFunction for the Unbind called last.
LoopMatches(w) ==
    LET func == DynamicCast(UnbindCast(last.type), w)
    IN  /\ func /= NullPtr
        /\ ShouldRemove([funcPtr |-> last.funcPtr, caller |-> last.caller], func[1])

Reverse(s) == [n \in 1..Len(s) |-> s[Len(s) + 1 - n]]

C16_KindSpecific ==
    last.op = "Unbind" =>
        \A n \in 1..Len(Removed(last.pre, boundFunctions)) :
            Removed(last.pre, boundFunctions)[n].type = last.type

\* A const method and a mutable method were bound to the same receiver, and
\* the Unbind of the const method on it removed the const wrapper only.
C16_Witness ==
    /\ last.op = "Unbind"
    /\ last.type = ConstT
    /\ Count(last.pre, ConstT, last.funcPtr, last.caller) > 0
    /\ \E n \in 1..Len(last.pre) :
          /\ last.pre[n].type = RegularT
          /\ last.pre[n].caller = last.caller
          /\ \E k \in 1..Len(boundFunctions) : boundFunctions[k] = last.pre[n]
    /\ Count(boundFunctions, ConstT, last.funcPtr, last.caller) = 0

\* C17 (no snapshotting of shared state): a method executed after a mutable
\* method of the same receiver within one Invoke sees the field as that
\* method wrote it.
C17_NoSnapshot ==
    \A n, k \in 1..Len(calls) :
        (n < k /\ calls[n].w.type = RegularT
               /\ calls[k].w.caller = calls[n].w.caller)
            => calls[k].saw = FieldAfterCall(calls[n].w)[calls[n].w.caller]

\* The first method found the field as it was before the Invoke, wrote it,
\* and a later callback of another registration saw the new value.
C17_Witness ==
    \E n, k \in 1..Len(calls) :
        /\ n < k
        /\ calls[n].inv = calls[k].inv
        /\ calls[n].w.type = RegularT
        /\ calls[k].w.caller = calls[n].w.caller
        /\ calls[n].saw = 0
        /\ calls[k].saw = 1

\* C18 (wrapper lifecycle): the wrapper objects ever allocated are those of
\* the Bind calls, the live ones are exactly the elements of the vector, each
\* held by one element, and no object has been deleted more than once; after
\* the destructor none is live.
C18_WrapperLifecycle ==
    /\ Len(heap) = nextId
    /\ {id \in 1..Len(heap) : heap[id] = 0}
          = {boundFunctions[n].id : n \in 1..Len(boundFunctions)}
    /\ Cardinality({boundFunctions[n].id : n \in 1..Len(boundFunctions)})
          = Len(boundFunctions)
    /\ \A id \in 1..Len(heap) : heap[id] <= 1
    /\ ~alive => \A id \in 1..Len(heap) : heap[id] = 1

\* An Unbind deleted one wrapper and left another one live.
C18_Witness ==
    /\ last.op = "Unbind"
    /\ \E n \in 1..Len(last.pre) : heap[last.pre[n].id] = 1
    /\ \E n \in 1..Len(last.pre) : heap[last.pre[n].id] = 0
    /\ boundFunctions /= << >>

\* C19 (Invoke does not change the registrations): during and after an
\* Invoke the vector is the vector the Invoke began with, and an Invoke that
\* directly follows an Invoke executes the same wrappers in the same order.
C19_InvokeKeepsVector ==
    /\ last.op = "Invoke" => boundFunctions = last.pre
    /\ (Done /\ last.prev = "Invoke") => CalledIds(1) = prevRun

\* Two Invokes in a row on two or more registrations.
C19_Witness ==
    /\ Done
    /\ last.prev = "Invoke"
    /\ Len(prevRun) >= 2
    /\ CalledIds(1) = prevRun
    /\ boundFunctions = last.pre

\* C20 (no reentrancy guard): a callback's call of the Event is suppressed by
\* nothing but the callback itself (F2 stops at MaxDepth); the nested
\* activation starts at once, and by the time the outer loop executes its
\* next callback the nested one has executed every registered wrapper in
\* order; so the nesting always goes as deep as the callbacks take it.
C20_NoReentrancyGuard ==
    /\ \A n \in 1..Len(calls) :
          /\ (ReInvokes(calls[n].w) /\ calls[n].depth < MaxDepth)
                => calls[n].spawn /= 0
          /\ (calls[n].spawn /= 0 /\ n < Len(calls)) =>
                /\ calls[n + 1].inv = calls[n].spawn
                /\ calls[n + 1].idx = 1
                /\ calls[n + 1].depth = calls[n].depth + 1
          /\ \A k \in 1..Len(calls) :
                (calls[n].spawn /= 0 /\ n < k /\ calls[k].inv = calls[n].inv) =>
                    /\ CalledIds(calls[n].spawn) = IdsOf(boundFunctions)
                    /\ \A j \in 1..Len(calls) :
                          calls[j].inv = calls[n].spawn => (n < j /\ j < k)
    /\ Done =>
          /\ \A n \in 1..Len(calls) :
                calls[n].spawn /= 0
                    => CalledIds(calls[n].spawn) = IdsOf(boundFunctions)
          /\ (\E n \in 1..Len(calls) : ReInvokes(calls[n].w))
                => \E n \in 1..Len(calls) : calls[n].depth = MaxDepth

\* F2 called the Event from inside the dispatch, the nested dispatch ran both
\* registrations, and the outer loop then went on to its next callback.
C20_Witness ==
    /\ Len(boundFunctions) >= 2
    /\ \E n, k \in 1..Len(calls) :
          /\ n < k
          /\ calls[n].spawn /= 0
          /\ calls[k].inv = calls[n].inv
          /\ Len(CallsOf(calls[n].spawn)) = Len(boundFunctions)

====
